---- MODULE Spec2Model ----
(***************************************************************************)
(* Empirical: the lexer utilities (to_DFA, subset construction) and the   *)
(* Parser rule table, as state machines.                                   *)
(*                                                                         *)
(* NFA.h, DFA.h and Lexer.h are not among the sources; the NFA and DFA     *)
(* primitives that to_DFA calls are modelled from the specification's      *)
(* sections 4.1 and 4.2.  to_DFA and Parser are modelled from their code.  *)
(***************************************************************************)
EXTENDS Integers, Sequences, FiniteSets, TLC

(* ------------------------------ bounds -------------------------------- *)

\* NFAs of up to this many states are converted.
MaxNFAStates == 2
\* An NFA of the model holds at most this many transitions.
MaxTransitions == 2
\* Acceptance is compared on every string of at most this length.
MaxLen == 3

(* ------------------------------- state -------------------------------- *)

\* NFA::NUM_SYMBOLS, the size of the alphabet every automaton shares.  The
\* specification leaves the size a parameter; the model instantiates it at 2.
NUM_SYMBOLS == 2

VARIABLES
  nfa,          \* the NFA handed to to_DFA: [size, start, stop, trans]
  keep_invalid, \* to_DFA's second argument
  pc,           \* where to_DFA stands: "while", "for", "done"
  dfa,          \* the DFA under construction: [trans, is_stop]
  id_map,       \* std::map<std::set<int>,int>: NFA state-set -> DFA id
  state_stack,  \* the work-list, a sequence of NFA state-sets
  cur_state,    \* the state-set being explored
  cur_id,       \* its DFA id
  sym,          \* the for loop's symbol
  alloc_log,    \* history: alloc_log[i+1] is the state-set DFA id i was allocated for
  push_log,     \* history: every state-set placed on state_stack, in order
  lexer,        \* the Lexer a Parser is built over: [max_token_id, tokens]
  rules,        \* Parser::rules, a sequence of [name, pattern, id]
  cur_rule_id,  \* Parser::cur_rule_id
  ret_log,      \* history: the value each AddRule call returned, in order
  last_call,    \* history: the arguments of the latest AddRule call
  lex_dfa,      \* the Lexer's scanning DFA
  input,        \* the input the Lexer scans, a sequence of symbols
  scan,         \* the scan: [cursor, state, pos, accept, status]
  tokens,       \* the tokens emitted, a sequence of [start, end]
  mod_call,     \* a call of emp::Mod: [in_val, mod_val, result, done]
  pop,          \* Population::pop, a sequence of members [obj, val]
  next_pop,     \* Population::next_pop
  n_alloc,      \* the number of members allocated (new MEMBER) so far
  n_inserted,   \* history: members pushed on next_pop since the last Update
  pop_op,       \* history: the latest Population operation
  sel,          \* the selection call running or just returned: its arguments,
                \* the tournaments run so far, the latest tournament's entries
  cfg,          \* a Config with one constant setting: [orig, default_val,
                \* delay, pending, notified, direct, calls]
  cfg_call,     \* history: the latest Config call [op, in_val, ret]
  stats,        \* StatsManager_FunctionsOnUpdate: [header_printed, header,
                \* col_map, resolution]
  output,       \* the lines written to output_location
  upd_log       \* history: the arguments of the Update calls so far

dfaVars == <<nfa, keep_invalid, pc, dfa, id_map, state_stack, cur_state, cur_id,
             sym, alloc_log, push_log>>
parserVars == <<lexer, rules, cur_rule_id, ret_log, last_call>>
lexVars == <<lex_dfa, input, scan, tokens>>
modVars == <<mod_call>>
popVars == <<pop, next_pop, n_alloc, n_inserted, pop_op, sel>>
cfgVars == <<cfg, cfg_call>>
statsVars == <<stats, output, upd_log>>
vars == <<dfaVars, parserVars, lexVars, modVars, popVars, cfgVars, statsVars>>

Symbols == 0 .. NUM_SYMBOLS - 1

(* ------------------------------- NFA ---------------------------------- *)

\* NFA::GetStart(): the set of start states.
GetStart == nfa.start

\* NFA::IsStop(s): whether state s is accepting.
IsStop(s) == s \in nfa.stop

\* NFA::GetNext(sym, set): every state reachable from a state of the set by
\* consuming the symbol; empty when none has a transition on it.
GetNext(a, S) == {t[3] : t \in {u \in nfa.trans : u[1] \in S /\ u[2] = a}}

\* The subsets of T with at most k elements.
RECURSIVE UpTo(_, _)
UpTo(T, k) ==
  IF k = 0 THEN {{}}
  ELSE LET P == UpTo(T, k - 1) IN P \cup {p \cup {x} : p \in P, x \in T}

\* The transition relations of an n-state NFA of the model: at most
\* MaxTransitions triples (from, symbol, to).
TransSets(n) == UpTo((0 .. n - 1) \X Symbols \X (0 .. n - 1), MaxTransitions)

(* ------------------------------- DFA ---------------------------------- *)

\* The "no transition" sentinel of a DFA's table.
NoTransition == 0 - 1

\* DFA::GetSize().
GetSize(d) == Cardinality(DOMAIN d.is_stop)

\* DFA dfa(n): n states, none accepting, no transitions.
NewDFA(n) ==
  [trans   |-> [q \in 0 .. n - 1 |-> [a \in Symbols |-> NoTransition]],
   is_stop |-> [q \in 0 .. n - 1 |-> FALSE]]

\* DFA::Resize(n): grows the table; new states are non-accepting and have no
\* transitions; never shrinks.
Resize(d, n) ==
  IF n <= GetSize(d) THEN d
  ELSE [trans   |-> [q \in 0 .. n - 1 |->
                       IF q \in DOMAIN d.trans THEN d.trans[q]
                       ELSE [a \in Symbols |-> NoTransition]],
        is_stop |-> [q \in 0 .. n - 1 |->
                       IF q \in DOMAIN d.is_stop THEN d.is_stop[q] ELSE FALSE]]

\* DFA::SetTransition(from, to, sym): overwrites the destination.
SetTransition(d, from, to, a) ==
  [d EXCEPT !.trans = [d.trans EXCEPT ![from] = [d.trans[from] EXCEPT ![a] = to]]]

\* DFA::SetStop(state).
SetStop(d, q) == [d EXCEPT !.is_stop = [d.is_stop EXCEPT ![q] = TRUE]]

(* ------------------------------ to_DFA -------------------------------- *)

\* Faulty variant of CurID: every popped state-set is taken for the start state.
CurIDStart(S) == 0
\* Line 27: the DFA id of the popped state-set.
CurID(S) == id_map[S]

\* Faulty variant of PopBack: the popped state-set stays on the work-list.
PopBackKeep(stack) == stack
\* Line 28: state_stack.pop_back().
PopBack(stack) == SubSeq(stack, 1, Len(stack) - 1)

\* Faulty variants of Discard: no next set is discarded; an empty next set is
\* discarded whatever keep_invalid says.
DiscardNever(next_state) == FALSE
DiscardEmpty(next_state) == next_state = {}
\* Line 33: an empty next set is discarded unless keep_invalid.
Discard(next_state) == next_state = {} /\ ~keep_invalid

\* Faulty variant of IsNew: the map is not consulted.
IsNewAlways(next_state) == TRUE
\* Line 36: the next set has no DFA state yet.
IsNew(next_state) == next_state \notin DOMAIN id_map

\* Faulty variant of AnyStop: only the first NFA state of the set is tested.
AnyStopFirst(next_state) ==
  next_state # {} /\
  IsStop(CHOOSE s \in next_state : \A r \in next_state : s <= r)
\* Line 41: the new DFA state stops when some NFA state of the set stops.
AnyStop(next_state) == \E s \in next_state : IsStop(s)

\* Line 38: id_map[next_state] = next_id.
MapSet(map, S, id) ==
  [X \in DOMAIN map \cup {S} |-> IF X = S THEN id ELSE map[X]]

\* Faulty variant of NextID: the id allocated last.
NextIDLast(map, next_state) == Cardinality(DOMAIN map) - 1
\* Line 45: the id the transition is recorded to.
NextID(map, next_state) == map[next_state]

\* Faulty variant of FreshID: the start state's id is given out again.
FreshIDZero(d) == 0
\* Line 37: const int next_id = dfa.GetSize().
FreshID(d) == GetSize(d)

\* Lines 18-22: the DFA with its start state, the map and the work-list seeded
\* with the NFA's start set.
InitToDFA ==
  /\ \E n \in 0 .. MaxNFAStates :
       \E t \in TransSets(n) :
         \E s \in SUBSET (0 .. n - 1), f \in SUBSET (0 .. n - 1) :
           nfa = [size |-> n, start |-> s, stop |-> f, trans |-> t]
  /\ keep_invalid \in BOOLEAN
  /\ pc = "while"
  /\ dfa = NewDFA(1)
  /\ state_stack = <<GetStart>>
  /\ id_map = MapSet(<<>>, GetStart, 0)
  /\ cur_state = {}
  /\ cur_id = 0
  /\ sym = 0
  /\ alloc_log = <<GetStart>>
  /\ push_log = <<GetStart>>

\* Lines 24-28: the work-list is not empty; take its last state-set.
PopState ==
  /\ pc = "while"
  /\ Len(state_stack) > 0
  /\ cur_state' = state_stack[Len(state_stack)]
  /\ cur_id' = CurID(state_stack[Len(state_stack)])
  /\ state_stack' = PopBack(state_stack)
  /\ sym' = 0
  /\ pc' = "for"
  /\ UNCHANGED <<nfa, keep_invalid, dfa, id_map, alloc_log, push_log,
                 parserVars, lexVars, modVars, popVars, cfgVars, statsVars>>

\* Lines 31-33: the symbol leads nowhere and invalid transitions are discarded.
SkipInvalid ==
  /\ pc = "for"
  /\ sym < NUM_SYMBOLS
  /\ Discard(GetNext(sym, cur_state))
  /\ sym' = sym + 1
  /\ UNCHANGED <<nfa, keep_invalid, pc, dfa, id_map, state_stack, cur_state,
                 cur_id, alloc_log, push_log,
                 parserVars, lexVars, modVars, popVars, cfgVars, statsVars>>

\* Lines 31-46: the next set is new: allocate its DFA state, push it, mark it
\* stopping, and record the transition.
AddNewState ==
  /\ pc = "for"
  /\ sym < NUM_SYMBOLS
  /\ LET next_state == GetNext(sym, cur_state)
         next_id    == FreshID(dfa)
         resized    == Resize(dfa, next_id + 1)
         marked     == IF AnyStop(next_state) THEN SetStop(resized, next_id)
                       ELSE resized
     IN /\ ~Discard(next_state)
        /\ IsNew(next_state)
        /\ id_map' = MapSet(id_map, next_state, next_id)
        /\ state_stack' = Append(state_stack, next_state)
        /\ alloc_log' = Append(alloc_log, next_state)
        /\ push_log' = Append(push_log, next_state)
        /\ dfa' = SetTransition(marked, cur_id,
                                NextID(MapSet(id_map, next_state, next_id), next_state),
                                sym)
  /\ sym' = sym + 1
  /\ UNCHANGED <<nfa, keep_invalid, pc, cur_state, cur_id,
                 parserVars, lexVars, modVars, popVars, cfgVars, statsVars>>

\* Lines 31-36, 45-46: the next set is known: record the transition to its id.
LinkKnownState ==
  /\ pc = "for"
  /\ sym < NUM_SYMBOLS
  /\ LET next_state == GetNext(sym, cur_state)
     IN /\ ~Discard(next_state)
        /\ ~IsNew(next_state)
        /\ dfa' = SetTransition(dfa, cur_id, NextID(id_map, next_state), sym)
  /\ sym' = sym + 1
  /\ UNCHANGED <<nfa, keep_invalid, pc, id_map, state_stack, cur_state, cur_id,
                 alloc_log, push_log,
                 parserVars, lexVars, modVars, popVars, cfgVars, statsVars>>

\* Line 47: every symbol is done; back to the while test.
EndFor ==
  /\ pc = "for"
  /\ sym >= NUM_SYMBOLS
  /\ pc' = "while"
  /\ UNCHANGED <<nfa, keep_invalid, dfa, id_map, state_stack, cur_state, cur_id,
                 sym, alloc_log, push_log,
                 parserVars, lexVars, modVars, popVars, cfgVars, statsVars>>

\* Lines 24, 52: the work-list is empty; the DFA is returned.
Return ==
  /\ pc = "while"
  /\ Len(state_stack) = 0
  /\ pc' = "done"
  /\ UNCHANGED <<nfa, keep_invalid, dfa, id_map, state_stack, cur_state, cur_id,
                 sym, alloc_log, push_log,
                 parserVars, lexVars, modVars, popVars, cfgVars, statsVars>>

(* ------------------------- components at rest ------------------------- *)

\* No scan: the other specifications leave these alone.
LexerIdle ==
  /\ lex_dfa = NewDFA(1)
  /\ input = <<>>
  /\ scan = [cursor |-> 0, state |-> 0, pos |-> 0, accept |-> 0 - 1,
             status |-> "idle"]
  /\ tokens = <<>>

\* No call of Mod: the other specifications leave this alone.
ModIdle == mod_call = [in_val |-> 0, mod_val |-> 1, result |-> 0, done |-> FALSE]

\* No Population: the other specifications leave these alone.
NoSel ==
  [op |-> "none", fit |-> <<>>, count |-> 0, copies |-> 0, t_size |-> 0,
   T |-> 0, entries |-> <<>>, base |-> 0, running |-> FALSE]

PopulationIdle ==
  /\ pop = <<>>
  /\ next_pop = <<>>
  /\ n_alloc = 0
  /\ n_inserted = 0
  /\ pop_op = "idle"
  /\ sel = NoSel

\* No Config call yet.
NoConfigCall == [op |-> "none", in_val |-> "", ret |-> ""]

\* No Config: the other specifications leave these alone.
ConfigIdle ==
  /\ cfg = [orig |-> "", default_val |-> "", delay |-> 0, pending |-> 0,
            notified |-> 0, direct |-> 0, calls |-> 0]
  /\ cfg_call = NoConfigCall

\* No StatsManager: the other specifications leave these alone.
StatsIdle ==
  /\ stats = [header_printed |-> FALSE, header |-> <<>>, col_map |-> <<>>,
              resolution |-> 1]
  /\ output = <<>>
  /\ upd_log = <<>>

(* ------------------------------ Parser -------------------------------- *)

\* Lexer::MaxTokenID() of the lexers a Parser is built over.
LexerMaxTokenIDs == {0, 3, 7}
\* At most this many AddRule calls are made.
MaxRules == 2
\* A rule's pattern holds at most this many elements.
MaxPattern == 2
\* The rule table holds at most this many pattern elements in all.
MaxElements == 3

\* The names rules are declared under.
RuleNames == {"expr", "num"}
\* The arguments of AddRule after the name: an int or a string.
Elements ==
  {[kind |-> "int", int |-> 1, str |-> ""],
   [kind |-> "int", int |-> 9, str |-> ""],
   [kind |-> "str", int |-> 0, str |-> "expr"],
   [kind |-> "str", int |-> 0, str |-> "num"],
   [kind |-> "str", int |-> 0, str |-> "nonexistent_token"]}
Patterns == UNION {[1 .. m -> Elements] : m \in 0 .. MaxPattern}

\* A lexer whose highest token id is m; its last token is named "num".
LexerOf(m) == [max_token_id |-> m, tokens |-> [n \in {"num"} |-> m]]

\* Lexer::MaxTokenID().
MaxTokenID == lexer.max_token_id

\* The names of the lexer's tokens.
TokenNames == DOMAIN lexer.tokens

\* Line 37: the constructor's value of cur_rule_id.
FirstRuleID(lx) == lx.max_token_id

\* Lines 43-49: GetID(int) is the int; GetID(string) returns 0.
GetID(e) == IF e.kind = "int" THEN e.int ELSE 0

\* Faulty variant of BuildRule: the arguments are pushed last to first.
BuildRuleReversed(states) ==
  [i \in 1 .. Len(states) |-> GetID(states[Len(states) + 1 - i])]
\* Lines 30-35: BuildRule pushes GetID of each argument, in order.
BuildRule(states) == [i \in 1 .. Len(states) |-> GetID(states[i])]

\* Faulty variant of StoreRule: the new rule replaces the table's last rule.
StoreRuleOverLast(rls, new_rule) ==
  IF Len(rls) = 0 THEN <<new_rule>>
  ELSE [rls EXCEPT ![Len(rls)] = new_rule]
\* Line 57: rules.emplace_back(new_rule).
StoreRule(rls, new_rule) == Append(rls, new_rule)

\* The number of pattern elements the rules of a table hold.
\* Faulty variant of NextRuleID: the counter stays.
NextRuleIDSame(id) == id
\* Line 55: cur_rule_id++.
NextRuleID(id) == id + 1

RECURSIVE TotalElements(_)
TotalElements(rls) ==
  IF Len(rls) = 0 THEN 0
  ELSE Len(rls[Len(rls)].pattern) + TotalElements(SubSeq(rls, 1, Len(rls) - 1))

\* No AddRule call yet.
NoCall == [name |-> "", states |-> <<>>]

\* No Parser: the to_DFA specification leaves these alone.
ParserIdle ==
  /\ lexer = LexerOf(0)
  /\ rules = <<>>
  /\ cur_rule_id = 0
  /\ ret_log = <<>>
  /\ last_call = NoCall

\* No conversion: the Parser specification leaves these alone.
ToDFAIdle ==
  /\ nfa = [size |-> 0, start |-> {}, stop |-> {}, trans |-> {}]
  /\ keep_invalid = FALSE
  /\ pc = "idle"
  /\ dfa = NewDFA(1)
  /\ state_stack = <<>>
  /\ id_map = <<>>
  /\ cur_state = {}
  /\ cur_id = 0
  /\ sym = 0
  /\ alloc_log = <<>>
  /\ push_log = <<>>

\* Line 37: Parser(in_lexer).
InitParser ==
  /\ ToDFAIdle
  /\ LexerIdle
  /\ ModIdle
  /\ PopulationIdle
  /\ ConfigIdle
  /\ StatsIdle
  /\ \E m \in LexerMaxTokenIDs : lexer = LexerOf(m)
  /\ rules = <<>>
  /\ cur_rule_id = FirstRuleID(lexer)
  /\ ret_log = <<>>
  /\ last_call = NoCall

\* Lines 51-59: AddRule(name, states...).
AddRule(name, states) ==
  /\ Len(rules) < MaxRules
  /\ TotalElements(rules) + Len(states) <= MaxElements
  /\ LET new_rule == [name |-> name, pattern |-> BuildRule(states),
                      id |-> cur_rule_id]
     IN /\ cur_rule_id' = NextRuleID(cur_rule_id)
        /\ rules' = StoreRule(rules, new_rule)
        /\ ret_log' = Append(ret_log, new_rule.id)
  /\ last_call' = [name |-> name, states |-> states]
  /\ UNCHANGED <<lexer, dfaVars, lexVars, modVars, popVars, cfgVars, statsVars>>

NextParser == \E name \in RuleNames, states \in Patterns : AddRule(name, states)

SpecParser == InitParser /\ [][NextParser]_vars

(* ------------------------------- Lexer -------------------------------- *)

\* The scanning DFA has at most this many states.
MaxLexStates == 2
\* The scanning DFA has at most this many transitions.
MaxLexTransitions == 3
\* The input has at most this many symbols.
MaxInput == 3

\* The scanning DFAs of n states: a partial transition table and a set of
\* accepting states. State 0 is not accepting, as to_DFA builds it (SetStop is
\* called for newly allocated states only).
LexerDFAs(n) ==
  UNION {{[trans   |-> [q \in 0 .. n - 1 |-> [a \in Symbols |->
                          IF <<q, a>> \in D THEN f[<<q, a>>] ELSE NoTransition]],
           is_stop |-> [q \in 0 .. n - 1 |-> q \in F]] :
            f \in [D -> 0 .. n - 1], F \in SUBSET (1 .. n - 1)} :
         D \in UpTo((0 .. n - 1) \X Symbols, MaxLexTransitions)}

\* The inputs of the model.
Inputs == UNION {[1 .. m -> Symbols] : m \in 0 .. MaxInput}

\* No accepting state passed since the token's start.
NoAccept == 0 - 1

\* The scan at a token boundary c.
ScanAt(c) ==
  [cursor |-> c, state |-> 0, pos |-> c, accept |-> NoAccept, status |-> "scan"]

\* Faulty variant of RememberAccept: the first accepting offset is kept.
RememberFirst(old, p, stop) == IF stop /\ old = NoAccept THEN p ELSE old
\* The offset of the last accepting state passed through.
RememberAccept(old, p, stop) == IF stop THEN p ELSE old

\* The state the DFA moves to on the next input symbol, or NoTransition.
NextState == lex_dfa.trans[scan.state][input[scan.pos + 1]]

\* The scan cannot go on: end of input, or a symbol with no valid transition.
Stuck == IF scan.pos = Len(input) THEN TRUE ELSE NextState = NoTransition

\* The Lexer has compiled its DFA and is given an input.
InitLexer ==
  /\ ToDFAIdle
  /\ ParserIdle
  /\ ModIdle
  /\ PopulationIdle
  /\ ConfigIdle
  /\ StatsIdle
  /\ \E n \in 1 .. MaxLexStates : lex_dfa \in LexerDFAs(n)
  /\ input \in Inputs
  /\ scan = ScanAt(0)
  /\ tokens = <<>>

\* The DFA consumes one symbol.
ScanStep ==
  /\ scan.status = "scan"
  /\ ~Stuck
  /\ scan' = [scan EXCEPT
                !.state = NextState,
                !.pos = scan.pos + 1,
                !.accept = RememberAccept(scan.accept, scan.pos + 1,
                                          lex_dfa.is_stop[NextState])]
  /\ UNCHANGED <<lex_dfa, input, tokens, dfaVars, parserVars, modVars, popVars, cfgVars, statsVars>>

\* Stuck after an accepting state: the token up to the remembered offset is
\* emitted and the cursor moves past it.
EmitToken ==
  /\ scan.status = "scan"
  /\ scan.cursor < Len(input)
  /\ Stuck
  /\ scan.accept # NoAccept
  /\ tokens' = Append(tokens, [start |-> scan.cursor, end |-> scan.accept])
  /\ scan' = ScanAt(scan.accept)
  /\ UNCHANGED <<lex_dfa, input, dfaVars, parserVars, modVars, popVars, cfgVars, statsVars>>

\* Stuck with no accepting state since the token's start: a lexical error.
LexError ==
  /\ scan.status = "scan"
  /\ scan.cursor < Len(input)
  /\ Stuck
  /\ scan.accept = NoAccept
  /\ scan' = [scan EXCEPT !.status = "error"]
  /\ UNCHANGED <<lex_dfa, input, tokens, dfaVars, parserVars, modVars, popVars, cfgVars, statsVars>>

\* The input is exhausted.
FinishScan ==
  /\ scan.status = "scan"
  /\ scan.cursor = Len(input)
  /\ scan' = [scan EXCEPT !.status = "done"]
  /\ UNCHANGED <<lex_dfa, input, tokens, dfaVars, parserVars, modVars, popVars, cfgVars, statsVars>>

NextLexer == ScanStep \/ EmitToken \/ LexError \/ FinishScan

SpecLexer == InitLexer /\ [][NextLexer]_vars

(* -------------------------------- Mod --------------------------------- *)

\* Mod is called with |in_val| up to this.
MaxModIn == 8
\* Mod is called with mod_val from 1 up to this.
MaxModVal == 4

\* C++'s a % b for b > 0: the remainder of the division truncated toward zero.
CRem(a, b) == IF a >= 0 THEN a % b ELSE 0 - ((0 - a) % b)

\* math.h lines 18-20: Mod(int in_val, int mod_val).
Mod(in_val, mod_val) ==
  IF in_val < 0 THEN CRem(in_val, mod_val) + mod_val ELSE CRem(in_val, mod_val)

\* The arguments of a call.
InitMod ==
  /\ ToDFAIdle
  /\ ParserIdle
  /\ LexerIdle
  /\ PopulationIdle
  /\ ConfigIdle
  /\ StatsIdle
  /\ \E i \in (0 - MaxModIn) .. MaxModIn, m \in 1 .. MaxModVal :
       mod_call = [in_val |-> i, mod_val |-> m, result |-> 0, done |-> FALSE]

\* The call returns.
CallMod ==
  /\ ~mod_call.done
  /\ mod_call' = [mod_call EXCEPT
                    !.result = Mod(mod_call.in_val, mod_call.mod_val),
                    !.done = TRUE]
  /\ UNCHANGED <<dfaVars, parserVars, lexVars, popVars, cfgVars, statsVars>>

NextMod == CallMod

SpecMod == InitMod /\ [][NextMod]_vars

(* ----------------------------- Population ----------------------------- *)

\* At most this many members are allocated.
MaxMembers == 4
\* Insert and InsertNext are called with a copy_count of at most this.
MaxCopies == 2

\* The values a member is made of.
MemberVals == {0, 1}

\* Line 146: GetSize().
PopSize == Len(pop)

\* Lines 150, 153: copy_count times push_back(new MEMBER(mem)); the k-th new
\* member is a fresh object holding a copy of mem.
PushCopies(p, mem, copy_count) ==
  p \o [k \in 1 .. copy_count |-> [obj |-> n_alloc + k, val |-> mem]]

\* Lines 150, 153 for a population whose members so far number base.
PushAt(p, mem, copy_count, base) ==
  p \o [k \in 1 .. copy_count |-> [obj |-> base + k, val |-> mem]]

\* The fitness functions fit_fun(member) of the model: one that tells the
\* members apart and one under which they all tie.
FitFuns == {[v \in MemberVals |-> v], [v \in MemberVals |-> 0]}

\* std::multimap::insert: the pair goes after the entries whose key is not
\* greater (the upper bound of its key).
MultimapInsert(m, key, idx) ==
  LET k == Cardinality({j \in 1 .. Len(m) : m[j].key <= key})
  IN SubSeq(m, 1, k) \o <<[key |-> key, idx |-> idx]>> \o SubSeq(m, k + 1, Len(m))

\* Lines 164-167: fit_map after the first n members are loaded, in iteration
\* order (members are indexed from 1).
RECURSIVE FitMap(_, _, _)
FitMap(p, fit_fun, n) ==
  IF n = 0 THEN <<>>
  ELSE MultimapInsert(FitMap(p, fit_fun, n - 1), fit_fun[p[n].val], n)

\* Faulty variant of EliteAt: the map is walked from begin().
EliteAtFront(m, i) == m[i].idx
\* Lines 170, 173: the member m points at in round i (i from 1), walking from
\* rbegin().
EliteAt(m, i) == m[Len(m) + 1 - i].idx

\* Lines 171-174: next_pop after the first i rounds of the loop.
RECURSIVE Elite(_, _, _, _, _)
Elite(np, m, i, copy_count, base) ==
  IF i = 0 THEN np
  ELSE PushAt(Elite(np, m, i - 1, copy_count, base), pop[EliteAt(m, i)].val,
              copy_count, base + (i - 1) * copy_count)

\* At most this many entries per tournament.
MaxTSize == 2
\* At most this many tournaments per call.
MaxTournaments == 2

\* random.Choose(N, K): K distinct positions among N (indexed from 1).
Choose(N, K) ==
  {e \in [1 .. K -> 1 .. N] : \A i \in 1 .. K, j \in 1 .. K : e[i] = e[j] => i = j}

\* Faulty variant of Better: a later entry of equal fitness wins.
BetterOrEqual(cur_fit, best_fit) == cur_fit >= best_fit
\* Line 193: cur_fit > best_fit.
Better(cur_fit, best_fit) == cur_fit > best_fit

\* Lines 187-197: best_id after the entries up to the i-th are looked at.
RECURSIVE BestID(_, _, _, _)
BestID(p, fit_fun, entries, i) ==
  IF i = 1 THEN entries[1]
  ELSE LET best_id == BestID(p, fit_fun, entries, i - 1)
       IN IF Better(fit_fun[p[entries[i]].val], fit_fun[p[best_id].val])
          THEN entries[i] ELSE best_id

\* Faulty variant of UpdatedPop: the next generation is added to the current.
UpdatedPopKept(p, np) == p \o np
\* Lines 206-207: the current members are deleted and pop = next_pop.
UpdatedPop(p, np) == np

\* Line 137: Population().
InitPopulation ==
  /\ ToDFAIdle
  /\ ParserIdle
  /\ LexerIdle
  /\ ModIdle
  /\ ConfigIdle
  /\ StatsIdle
  /\ pop = <<>>
  /\ next_pop = <<>>
  /\ n_alloc = 0
  /\ n_inserted = 0
  /\ pop_op = "new"
  /\ sel = NoSel

\* Lines 149-151: Insert(mem, copy_count).
Insert(mem, copy_count) ==
  /\ ~sel.running
  /\ n_alloc + copy_count <= MaxMembers
  /\ pop' = PushCopies(pop, mem, copy_count)
  /\ n_alloc' = n_alloc + copy_count
  /\ pop_op' = "Insert"
  /\ sel' = NoSel
  /\ UNCHANGED <<next_pop, n_inserted, dfaVars, parserVars, lexVars, modVars, cfgVars, statsVars>>

\* Lines 152-154: InsertNext(mem, copy_count).
InsertNext(mem, copy_count) ==
  /\ ~sel.running
  /\ n_alloc + copy_count <= MaxMembers
  /\ next_pop' = PushCopies(next_pop, mem, copy_count)
  /\ n_alloc' = n_alloc + copy_count
  /\ n_inserted' = n_inserted + copy_count
  /\ pop_op' = "InsertNext"
  /\ sel' = NoSel
  /\ UNCHANGED <<pop, dfaVars, parserVars, lexVars, modVars, cfgVars, statsVars>>

\* Lines 160-175: EliteSelect(fit_fun, e_count, copy_count); the assertion of
\* line 161 holds.
EliteSelect(fit_fun, e_count, copy_count) ==
  /\ ~sel.running
  /\ e_count > 0 /\ e_count <= Len(pop)
  /\ n_alloc + e_count * copy_count <= MaxMembers
  /\ next_pop' = Elite(next_pop, FitMap(pop, fit_fun, Len(pop)), e_count,
                      copy_count, n_alloc)
  /\ n_alloc' = n_alloc + e_count * copy_count
  /\ n_inserted' = n_inserted + e_count * copy_count
  /\ pop_op' = "EliteSelect"
  /\ sel' = [NoSel EXCEPT !.op = "EliteSelect", !.fit = fit_fun,
                          !.count = e_count, !.copies = copy_count]
  /\ UNCHANGED <<pop, dfaVars, parserVars, lexVars, modVars, cfgVars, statsVars>>

\* Lines 183-185: TournamentSelect(fit_fun, t_size, random, tourny_count) is
\* called; the assertion of line 183 holds.
TournamentSelect(fit_fun, t_size, tourny_count) ==
  /\ ~sel.running
  /\ t_size > 0 /\ t_size <= Len(pop)
  /\ n_alloc + tourny_count <= MaxMembers
  /\ pop_op' = "TournamentSelect"
  /\ sel' = [NoSel EXCEPT !.op = "TournamentSelect", !.fit = fit_fun,
                          !.count = tourny_count, !.t_size = t_size,
                          !.base = Len(next_pop), !.running = TRUE]
  /\ UNCHANGED <<pop, next_pop, n_alloc, n_inserted,
                 dfaVars, parserVars, lexVars, modVars, cfgVars, statsVars>>

\* Lines 185-200: one tournament of the loop.
Tournament(entries) ==
  /\ sel.running
  /\ sel.T < sel.count
  /\ next_pop' = PushAt(next_pop, pop[BestID(pop, sel.fit, entries, sel.t_size)].val,
                        1, n_alloc)
  /\ n_alloc' = n_alloc + 1
  /\ n_inserted' = n_inserted + 1
  /\ pop_op' = "Tournament"
  /\ sel' = [sel EXCEPT !.T = sel.T + 1, !.entries = entries]
  /\ UNCHANGED <<pop, dfaVars, parserVars, lexVars, modVars, cfgVars, statsVars>>

RunTournament == \E entries \in Choose(Len(pop), sel.t_size) : Tournament(entries)

\* Lines 185, 201: the loop ends and TournamentSelect returns.
TournamentSelectReturn ==
  /\ sel.running
  /\ sel.T = sel.count
  /\ pop_op' = "TournamentSelectReturn"
  /\ sel' = [sel EXCEPT !.running = FALSE]
  /\ UNCHANGED <<pop, next_pop, n_alloc, n_inserted,
                 dfaVars, parserVars, lexVars, modVars, cfgVars, statsVars>>

\* Lines 205-209: Update().
Update ==
  /\ ~sel.running
  /\ pop' = UpdatedPop(pop, next_pop)
  /\ next_pop' = <<>>
  /\ n_inserted' = 0
  /\ pop_op' = "Update"
  /\ sel' = NoSel
  /\ UNCHANGED <<n_alloc, dfaVars, parserVars, lexVars, modVars, cfgVars, statsVars>>

NextPopulation ==
  \/ \E mem \in MemberVals, copy_count \in 0 .. MaxCopies : Insert(mem, copy_count)
  \/ \E mem \in MemberVals, copy_count \in 0 .. MaxCopies : InsertNext(mem, copy_count)
  \/ \E fit_fun \in FitFuns, e_count \in 1 .. MaxMembers, copy_count \in 0 .. MaxCopies :
       EliteSelect(fit_fun, e_count, copy_count)
  \/ \E fit_fun \in FitFuns, t_size \in 1 .. MaxTSize, tourny_count \in 0 .. MaxTournaments :
       TournamentSelect(fit_fun, t_size, tourny_count)
  \/ RunTournament
  \/ TournamentSelectReturn
  \/ Update

SpecPopulation == InitPopulation /\ [][NextPopulation]_vars

(* ------------------------------- Config ------------------------------- *)

\* At most this many calls are made on the Config.
MaxConfigCalls == 3

\* The values of a setting, as strings.
ConfigValues == {"1", "1.0", "2"}

\* Line 125: tConfigConstEntry::GetValue().
ConstGetValue(c) == c.default_val

\* Faulty variant of Warns: every call warns.
WarnsAlways(in_val, c) == TRUE
\* Line 129: in_val != GetValue().
Warns(in_val, c) == in_val # ConstGetValue(c)

\* Lines 127-136: tConfigConstEntry::SetValue(in_val, warnings) on the
\* Config's m_warnings: a warning line is written when the value differs; the
\* entry is not written.
ConstSetValue(c, in_val) ==
  IF Warns(in_val, c) THEN [c EXCEPT !.pending = c.pending + 1] ELSE c

\* Lines 311-314: the pending warnings are notified and cleared; avail is
\* what m_warnings.rdbuf()->in_avail() tells.
Notify(c, avail) ==
  IF c.delay = 0 /\ c.pending > 0 /\ avail
  THEN [c EXCEPT !.notified = c.notified + c.pending, !.pending = 0]
  ELSE c

\* Line 276: the constant setting is registered with its value as a string;
\* m_delay_warnings is 0 (line 266) or raised by a Read in progress (line 384).
InitConfig ==
  /\ ToDFAIdle
  /\ ParserIdle
  /\ LexerIdle
  /\ ModIdle
  /\ PopulationIdle
  /\ StatsIdle
  /\ \E v \in ConfigValues, d \in {0, 1} :
       cfg = [orig |-> v, default_val |-> v, delay |-> d, pending |-> 0,
              notified |-> 0, direct |-> 0, calls |-> 0]
  /\ cfg_call = NoConfigCall

\* Lines 127-136: SetValue called on the constant entry.
SetValue(in_val) ==
  /\ cfg.calls < MaxConfigCalls
  /\ cfg' = [ConstSetValue(cfg, in_val) EXCEPT !.calls = cfg.calls + 1]
  /\ cfg_call' = [op |-> "SetValue", in_val |-> in_val, ret |-> ""]
  /\ UNCHANGED <<dfaVars, parserVars, lexVars, modVars, popVars, statsVars>>

\* Lines 302-316: Config::Set(setting_name, new_value) on the constant
\* setting, which is in m_var_map.
Set(new_value, avail) ==
  /\ cfg.calls < MaxConfigCalls
  /\ cfg' = [Notify(ConstSetValue(cfg, new_value), avail) EXCEPT
               !.calls = cfg.calls + 1]
  /\ cfg_call' = [op |-> "Set", in_val |-> new_value, ret |-> ""]
  /\ UNCHANGED <<dfaVars, parserVars, lexVars, modVars, popVars, statsVars>>

\* Lines 293-300: Config::Get(setting_name) on the constant setting.
Get ==
  /\ cfg.calls < MaxConfigCalls
  /\ cfg' = [cfg EXCEPT !.calls = cfg.calls + 1]
  /\ cfg_call' = [op |-> "Get", in_val |-> "", ret |-> ConstGetValue(cfg)]
  /\ UNCHANGED <<dfaVars, parserVars, lexVars, modVars, popVars, statsVars>>

\* Lines 512-517: the accessor NAME(_in) of a constant notifies a warning
\* whatever _in is, and returns VALUE.
ConstAccessor(in_val) ==
  /\ cfg.calls < MaxConfigCalls
  /\ cfg' = [cfg EXCEPT !.direct = cfg.direct + 1, !.calls = cfg.calls + 1]
  /\ cfg_call' = [op |-> "NAME", in_val |-> in_val, ret |-> cfg.orig]
  /\ UNCHANGED <<dfaVars, parserVars, lexVars, modVars, popVars, statsVars>>

NextConfig ==
  \/ \E in_val \in ConfigValues : SetValue(in_val)
  \/ \E new_value \in ConfigValues, avail \in BOOLEAN : Set(new_value, avail)
  \/ Get
  \/ \E in_val \in ConfigValues : ConstAccessor(in_val)

SpecConfig == InitConfig /\ [][NextConfig]_vars

(* ---------------------------- StatsManager ---------------------------- *)

\* At most this many Update calls are made.
MaxUpdates == 3
\* Update is called with |update| up to this.
MaxUpdate == 4
\* The resolution is from 1 up to this.
MaxResolution == 3
\* At most this many functions are added.
MaxFunctions == 1

\* The labels of the functions added.
Labels == {"fit"}

\* Line 205: std::string header = "update".
InitialHeader == <<"update">>

\* Faulty variant of HeaderDue: the header is written on every Update.
HeaderDueAlways(st) == TRUE
\* Line 248: if (!header_printed).
HeaderDue(st) == ~st.header_printed

\* Line 253: update % resolution == 0.
RowDue(update, resolution) == CRem(update, resolution) = 0

\* Line 249: the header line.
HeaderLine(st) == [kind |-> "header", text |-> st.header, update |-> 0]

\* Lines 255-262: the data row of an update.
RowLine(update) == [kind |-> "row", text |-> <<>>, update |-> update]

\* Lines 204-205 and line 33/41: a manager with its resolution read from the
\* configuration, nothing written yet.
InitStats ==
  /\ ToDFAIdle
  /\ ParserIdle
  /\ LexerIdle
  /\ ModIdle
  /\ PopulationIdle
  /\ ConfigIdle
  /\ \E r \in 1 .. MaxResolution :
       stats = [header_printed |-> FALSE, header |-> InitialHeader,
                col_map |-> <<>>, resolution |-> r]
  /\ output = <<>>
  /\ upd_log = <<>>

\* Lines 234-244: AddFunction(func, label).
AddFunction(label) ==
  /\ Len(stats.col_map) < MaxFunctions
  /\ stats' = [stats EXCEPT
                 !.col_map = Append(stats.col_map, label),
                 !.header = IF stats.header_printed THEN stats.header
                            ELSE Append(stats.header, label)]
  /\ UNCHANGED <<output, upd_log,
                 dfaVars, parserVars, lexVars, modVars, popVars, cfgVars>>

\* Lines 247-264: Update(update).
StatsUpdate(update) ==
  /\ Len(upd_log) < MaxUpdates
  /\ LET with_header == IF HeaderDue(stats)
                        THEN Append(output, HeaderLine(stats)) ELSE output
     IN output' = IF RowDue(update, stats.resolution)
                  THEN Append(with_header, RowLine(update)) ELSE with_header
  /\ stats' = [stats EXCEPT !.header_printed = TRUE]
  /\ upd_log' = Append(upd_log, update)
  /\ UNCHANGED <<dfaVars, parserVars, lexVars, modVars, popVars, cfgVars>>

NextStats ==
  \/ \E label \in Labels : AddFunction(label)
  \/ \E update \in (0 - MaxUpdate) .. MaxUpdate : StatsUpdate(update)

SpecStats == InitStats /\ [][NextStats]_vars

(* --------------------------- specifications --------------------------- *)

Init ==
  /\ InitToDFA
  /\ ParserIdle
  /\ LexerIdle
  /\ ModIdle
  /\ PopulationIdle
  /\ ConfigIdle
  /\ StatsIdle

Next ==
  \/ PopState
  \/ SkipInvalid
  \/ AddNewState
  \/ LinkKnownState
  \/ EndFor
  \/ Return

Spec == Init /\ [][Next]_vars

\* to_DFA is a plain loop: a step that can be taken is taken.
FairSpec == Spec /\ WF_vars(Next)

(* ----------------------- acceptance of a string ------------------------ *)

\* Every string over the alphabet of at most MaxLen symbols.
Strings == UNION {[1 .. m -> Symbols] : m \in 0 .. MaxLen}

\* The state-set the NFA reaches from its start set by consuming w.
RECURSIVE NFAReach(_)
NFAReach(w) ==
  IF Len(w) = 0 THEN GetStart
  ELSE GetNext(w[Len(w)], NFAReach(SubSeq(w, 1, Len(w) - 1)))

\* The NFA accepts w: the state-set reached contains a stop state.
NFAAccepts(w) == \E s \in NFAReach(w) : IsStop(s)

\* The state the DFA reaches from state 0 by consuming w, or NoTransition once
\* a symbol has no transition.
RECURSIVE DFARun(_, _)
DFARun(d, w) ==
  IF Len(w) = 0 THEN 0
  ELSE LET q == DFARun(d, SubSeq(w, 1, Len(w) - 1))
       IN IF q = NoTransition THEN NoTransition ELSE d.trans[q][w[Len(w)]]

\* The DFA accepts w: the run ends in a stop state.
DFAAccepts(d, w) ==
  LET q == DFARun(d, w) IN q # NoTransition /\ d.is_stop[q]

\* The NFA state-set DFA state q was allocated for.
SetOf(q) == alloc_log[q + 1]

DFAStates == 0 .. GetSize(dfa) - 1

(* ------------------------------- claims ------------------------------- *)

\* C1: when to_DFA has returned, the DFA accepts a string exactly when the NFA
\* accepts it, the empty string and strings leading back to the start set
\* included.
C1_Equivalence ==
  pc = "done" => \A w \in Strings : DFAAccepts(dfa, w) <=> NFAAccepts(w)

\* C2: a transition recorded for a (state, symbol) pair is never replaced by
\* a different destination in a later step of the construction.
C2_Deterministic ==
  [][\A q \in DOMAIN dfa.trans : \A a \in Symbols :
       dfa.trans[q][a] # NoTransition => dfa'.trans[q][a] = dfa.trans[q][a]]_vars

\* C2 witness: the conversion has returned a DFA of three states or more in
\* which a state has a transition on both symbols.
C2_Witness ==
  /\ pc = "done"
  /\ GetSize(dfa) >= 3
  /\ \E q \in DFAStates : \A a \in Symbols : dfa.trans[q][a] # NoTransition

\* C3: at every step the map from state-sets to DFA ids is injective, no
\* state-set is allocated a second DFA state, and no state-set is pushed on the
\* work-list a second time.
C3_Memoized ==
  /\ \A S \in DOMAIN id_map : \A T \in DOMAIN id_map :
       id_map[S] = id_map[T] => S = T
  /\ \A i \in 1 .. Len(alloc_log) : \A j \in 1 .. Len(alloc_log) :
       alloc_log[i] = alloc_log[j] => i = j
  /\ \A i \in 1 .. Len(push_log) : \A j \in 1 .. Len(push_log) :
       push_log[i] = push_log[j] => i = j
  /\ \A i \in 1 .. Len(alloc_log) :
       alloc_log[i] \in DOMAIN id_map /\ id_map[alloc_log[i]] = i - 1

\* C3 witness: the conversion has returned after a known state-set came up
\* again: some state other than the start state has a transition back to the
\* start state.
C3_Witness ==
  /\ pc = "done"
  /\ GetSize(dfa) >= 3
  /\ \E q \in DFAStates : \E a \in Symbols : q # 0 /\ dfa.trans[q][a] = 0

\* C4: to_DFA terminates: the work-list empties and the DFA is returned.
C4_Terminates == <>(pc = "done")

\* C4 witness: the conversion has returned with keep_invalid set, from an NFA
\* with a loop, after exploring three state-sets or more.
C4_Witness ==
  /\ pc = "done"
  /\ keep_invalid
  /\ Len(push_log) >= 3
  /\ \E t \in nfa.trans : t[1] = t[3]

\* C5: the DFA never has more than 2^n states, n the NFA's number of states.
C5_SizeBound == GetSize(dfa) <= 2 ^ nfa.size

\* C5 witness: the bound is met: an NFA of two states gives a DFA of four.
C5_Witness == pc = "done" /\ nfa.size >= 2 /\ GetSize(dfa) = 2 ^ nfa.size

\* C6: every DFA state allocated for a newly discovered state-set is accepting
\* exactly when the state-set holds an accepting NFA state.
C6_StopIffAny ==
  \A i \in 2 .. Len(alloc_log) :
    dfa.is_stop[i - 1] <=> (alloc_log[i] \cap nfa.stop # {})

\* C6 witness: a newly discovered state-set of two NFA states, the lower one
\* not accepting and the higher one accepting, got an accepting DFA state.
C6_Witness ==
  \E i \in 2 .. Len(alloc_log) :
    /\ alloc_log[i] = {0, 1}
    /\ 0 \notin nfa.stop
    /\ 1 \in nfa.stop
    /\ dfa.is_stop[i - 1]

\* C7: without keep_invalid an empty next set records no transition and gets
\* no DFA state: no allocated state other than the start state and no
\* transition's destination stands for the empty state-set.
C7_NoDeadState ==
  ~keep_invalid =>
    /\ \A i \in 2 .. Len(alloc_log) : alloc_log[i] # {}
    /\ \A q \in DFAStates : \A a \in Symbols :
         /\ GetNext(a, SetOf(q)) = {} => dfa.trans[q][a] = NoTransition
         /\ dfa.trans[q][a] # NoTransition => SetOf(dfa.trans[q][a]) # {}

\* C7 witness: without keep_invalid the conversion has returned a DFA of two
\* states or more, one of which has a symbol that leads nowhere.
C7_Witness ==
  /\ pc = "done"
  /\ ~keep_invalid
  /\ GetSize(dfa) >= 2
  /\ \E q \in DFAStates : \E a \in Symbols : GetNext(a, SetOf(q)) = {}

\* C8: with keep_invalid the returned DFA is total, every empty next set leads
\* to the one state of the empty state-set, which is not accepting and loops to
\* itself on every symbol.
C8_Total ==
  (pc = "done" /\ keep_invalid) =>
    /\ \A q \in DFAStates : \A a \in Symbols : dfa.trans[q][a] \in DFAStates
    /\ \A q \in DFAStates : \A a \in Symbols :
         GetNext(a, SetOf(q)) = {} =>
           LET k == dfa.trans[q][a]
           IN /\ k \in DFAStates
              /\ SetOf(k) = {}
              /\ ~dfa.is_stop[k]
              /\ \A b \in Symbols : dfa.trans[k][b] = k
    /\ \A q \in DFAStates : \A a \in Symbols :
       \A r \in DFAStates : \A b \in Symbols :
         (GetNext(a, SetOf(q)) = {} /\ GetNext(b, SetOf(r)) = {}) =>
           dfa.trans[q][a] = dfa.trans[r][b]

\* C8 witness: with keep_invalid the conversion has returned a DFA of three
\* states or more from a non-empty start set, with a symbol that leads nowhere.
C8_Witness ==
  /\ pc = "done"
  /\ keep_invalid
  /\ GetStart # {}
  /\ GetSize(dfa) >= 3
  /\ \E q \in DFAStates : \E a \in Symbols : GetNext(a, SetOf(q)) = {}

\* C9: when to_DFA has returned, the transition of the DFA state of S on a
\* symbol with a non-empty next set T is the DFA id of T.
C9_Transitions ==
  pc = "done" =>
    \A S \in DOMAIN id_map : \A a \in Symbols :
      LET T == GetNext(a, S)
      IN T # {} => T \in DOMAIN id_map /\ dfa.trans[id_map[S]][a] = id_map[T]

\* C9 witness: the conversion has returned a DFA of three states or more in
\* which a state other than the start state leads back to the start set.
C9_Witness ==
  /\ pc = "done"
  /\ GetSize(dfa) >= 3
  /\ GetStart # {}
  /\ \E S \in DOMAIN id_map : \E a \in Symbols :
       S # GetStart /\ GetNext(a, S) = GetStart

\* C10: the k-th AddRule call returns MaxTokenID() + k: over a lexer whose
\* MaxTokenID() is 7 the first call returns 8 and the second 9.
C10_RuleIDs ==
  \A k \in 1 .. Len(ret_log) : ret_log[k] = MaxTokenID + k

(* --------------------------- name resolution -------------------------- *)

\* The rules declared before the latest AddRule call.
PrevRules == SubSeq(rules, 1, Len(rules) - 1)

\* The rule the latest AddRule call stored.
LastRule == rules[Len(rules)]

\* A rule of the table is declared under the name.
NamesRule(rls, n) == \E j \in 1 .. Len(rls) : rls[j].name = n

\* The element is a string that names neither a rule of the table nor a token.
Unresolvable(e, rls) ==
  e.kind = "str" /\ ~NamesRule(rls, e.str) /\ e.str \notin TokenNames

\* C11: every rule id is strictly greater than the lexer's MaxTokenID(), so no
\* rule id equals a token id.
C11_RuleIDsAboveTokens ==
  \A i \in 1 .. Len(rules) : rules[i].id > MaxTokenID

\* C12: an AddRule call given a string that names neither a previously
\* declared rule nor a token does not store 0 for it in the rule's pattern.
C12_UnknownNameFails ==
  Len(rules) >= 1 =>
    \A i \in 1 .. Len(last_call.states) :
      Unresolvable(last_call.states[i], PrevRules) => LastRule.pattern[i] # 0

\* C13: an AddRule call with an unresolvable name leaves the rule table as it
\* was and consumes no rule id.
C13_FailedCallNoEffect ==
  [][(\E i \in 1 .. Len(last_call'.states) :
        Unresolvable(last_call'.states[i], rules))
     => (rules' = rules /\ cur_rule_id' = cur_rule_id)]_vars

\* C14: a string element that names a previously declared rule resolves to
\* that rule's id; otherwise one that names a token resolves to the token's id.
C14_NameResolution ==
  Len(rules) >= 1 =>
    \A i \in 1 .. Len(last_call.states) :
      LET e == last_call.states[i]
      IN e.kind = "str" =>
           /\ NamesRule(PrevRules, e.str) =>
                \E j \in 1 .. Len(PrevRules) :
                  PrevRules[j].name = e.str /\ LastRule.pattern[i] = PrevRules[j].id
           /\ (~NamesRule(PrevRules, e.str) /\ e.str \in TokenNames) =>
                LastRule.pattern[i] = lexer.tokens[e.str]

\* C15: an AddRule call whose elements are all integers stores a rule of the
\* given name whose pattern is those integers, in argument order.
C15_IntsVerbatim ==
  (Len(rules) >= 1 /\ \A i \in 1 .. Len(last_call.states) :
                        last_call.states[i].kind = "int") =>
    /\ LastRule.name = last_call.name
    /\ Len(LastRule.pattern) = Len(last_call.states)
    /\ \A i \in 1 .. Len(last_call.states) :
         LastRule.pattern[i] = last_call.states[i].int

\* C15 witness: the second call was AddRule(name, 9, 1), after a call with no
\* elements.
C15_Witness ==
  /\ Len(rules) = 2
  /\ rules[1].pattern = <<>>
  /\ Len(last_call.states) = 2
  /\ last_call.states[1].kind = "int" /\ last_call.states[1].int = 9
  /\ last_call.states[2].kind = "int" /\ last_call.states[2].int = 1

\* C16: each AddRule call appends exactly one rule, the one it was called for,
\* at the end of the table and leaves every earlier rule as it was.
C16_AppendOnly ==
  [][/\ Len(rules') = Len(rules) + 1
     /\ SubSeq(rules', 1, Len(rules)) = rules
     /\ rules'[Len(rules')].name = last_call'.name
     /\ Len(ret_log') = Len(rules')
     /\ rules'[Len(rules')].id = ret_log'[Len(ret_log')]]_vars

\* C16 witness: two rules of different names are in the table, the first with
\* a pattern of its own.
C16_Witness ==
  /\ Len(rules) = 2
  /\ rules[1].name # rules[2].name
  /\ rules[1].pattern # <<>>
  /\ rules[1].pattern # rules[2].pattern

(* ------------------------------ tokens -------------------------------- *)

\* The token an accepting NFA state is tagged with: tokens are numbered in
\* declaration order, and the union NFA's accepting state s is token s's.
StopToken(s) == s

\* The lowest-numbered token among the accepting NFA states of S.
LowestToken(S) ==
  LET T == {StopToken(s) : s \in {x \in S : IsStop(x)}}
  IN CHOOSE t \in T : \A u \in T : t <= u

\* What an accepting DFA state carries of its state-set: its stop flag.
Carried(q) == dfa.is_stop[q]

\* The lexeme from offset s to offset e is accepted by the scanning DFA.
Accepted(s, e) == DFAAccepts(lex_dfa, SubSeq(input, s + 1, e))

\* C17: when to_DFA has returned, each accepting DFA state carries the
\* identity of the lowest-numbered token among the accepting NFA states of its
\* state-set: two accepting states that carry the same have the same token.
C17_TokenIdentity ==
  pc = "done" =>
    \A q \in DFAStates, r \in DFAStates :
      (dfa.is_stop[q] /\ dfa.is_stop[r] /\ Carried(q) = Carried(r))
        => LowestToken(SetOf(q)) = LowestToken(SetOf(r))

\* C18: every emitted token starts where the previous one ended, spans the
\* longest non-empty prefix of the remaining input the scanning DFA accepts,
\* and the cursor is exactly past the last emitted lexeme.
C18_MaximalMunch ==
  /\ \A i \in 1 .. Len(tokens) :
       LET s == tokens[i].start
           e == tokens[i].end
       IN /\ s = (IF i = 1 THEN 0 ELSE tokens[i - 1].end)
          /\ e > s
          /\ Accepted(s, e)
          /\ \A e2 \in e + 1 .. Len(input) : ~Accepted(s, e2)
  /\ scan.cursor = (IF Len(tokens) = 0 THEN 0 ELSE tokens[Len(tokens)].end)

\* C18 witness: the first token was emitted over a shorter accepted prefix,
\* after the scan had run past its end, and a second token followed.
C18_Witness ==
  /\ Len(tokens) = 2
  /\ tokens[1].end = 2
  /\ Accepted(0, 1)
  /\ lex_dfa.trans[DFARun(lex_dfa, SubSeq(input, 1, 2))][input[3]] # NoTransition
  /\ scan.status = "done"

\* C19: for mod_val > 0, Mod returns r with 0 <= r < mod_val and in_val - r a
\* multiple of mod_val, for negative in_val and negative multiples too.
C19_ProperModulus ==
  mod_call.done =>
    /\ 0 <= mod_call.result
    /\ mod_call.result < mod_call.mod_val
    /\ \E k \in (0 - MaxModIn) .. MaxModIn :
         mod_call.in_val - mod_call.result = k * mod_call.mod_val

\* C20: Update makes the current population the former next population, same
\* members in the same order, empties the next population, and leaves GetSize()
\* at the number of members inserted into the next population since the
\* previous Update.
C20_UpdateMovesNext ==
  [][pop_op' = "Update" =>
       /\ pop' = next_pop
       /\ next_pop' = <<>>
       /\ Len(pop') = n_inserted]_vars

\* C20 witness: an Update has moved two members of different values over a
\* non-empty current population's place.
C20_Witness ==
  /\ pop_op = "Update"
  /\ PopSize = 2
  /\ pop[1].val # pop[2].val
  /\ pop[1].obj > 1
  /\ next_pop = <<>>

(* ----------------------------- selection ------------------------------ *)

\* The fitness of the i-th current member under the selection call's fit_fun.
FitOf(i) == sel.fit[pop[i].val]

\* The objects of the members of p.
Objs(p) == {p[k].obj : k \in 1 .. Len(p)}

\* C21: EliteSelect with 0 < e_count <= population size leaves the current
\* population unchanged and appends e_count * copy_count members to the next
\* population: copy_count copies of each of e_count distinct current members,
\* no unselected member being strictly fitter than a selected one.
C21_EliteSelect ==
  [][pop_op' = "EliteSelect" =>
       LET e == sel'.count
           c == sel'.copies
           added == SubSeq(next_pop', Len(next_pop) + 1, Len(next_pop'))
       IN /\ pop' = pop
          /\ SubSeq(next_pop', 1, Len(next_pop)) = next_pop
          /\ Len(added) = e * c
          /\ \E S \in SUBSET (1 .. Len(pop)) :
               /\ Cardinality(S) = e
               /\ \A i \in S, j \in (1 .. Len(pop)) \ S :
                    sel'.fit[pop[j].val] <= sel'.fit[pop[i].val]
               /\ \A v \in MemberVals :
                    Cardinality({k \in 1 .. Len(added) : added[k].val = v})
                      = c * Cardinality({i \in S : pop[i].val = v})]_vars

\* C21 witness: EliteSelect has put two copies of the fitter of two members,
\* the one inserted first, on the next population.
C21_Witness ==
  /\ pop_op = "EliteSelect"
  /\ sel.count = 1
  /\ sel.copies = 2
  /\ Len(pop) = 2
  /\ FitOf(1) > FitOf(2)
  /\ Len(next_pop) = 2
  /\ next_pop[1].val = pop[1].val

\* C22: each tournament of TournamentSelect appends exactly one member to the
\* next population, a copy of the first entry of highest fitness among the
\* tournament's entries; the call runs tourny_count tournaments and leaves the
\* current population unchanged.
C22_TournamentSelect ==
  [][/\ pop_op' = "Tournament" =>
          LET en == sel'.entries
              new == next_pop'[Len(next_pop')]
          IN /\ pop' = pop
             /\ next_pop' = Append(next_pop, new)
             /\ new.obj \notin Objs(pop) \cup Objs(next_pop)
             /\ \E i \in 1 .. sel'.t_size :
                  /\ \A j \in 1 .. sel'.t_size :
                       sel'.fit[pop[en[j]].val] <= sel'.fit[pop[en[i]].val]
                  /\ \A j \in 1 .. i - 1 :
                       sel'.fit[pop[en[j]].val] < sel'.fit[pop[en[i]].val]
                  /\ new.val = pop[en[i]].val
     /\ pop_op' = "TournamentSelectReturn" =>
          /\ sel'.T = sel'.count
          /\ pop' = pop
          /\ Len(next_pop') = sel'.base + sel'.count]_vars

\* C22 witness: TournamentSelect has returned after two tournaments of two
\* entries, the latest a tie between two members of different values.
C22_Witness ==
  /\ pop_op = "TournamentSelectReturn"
  /\ sel.count = 2
  /\ sel.t_size = 2
  /\ FitOf(sel.entries[1]) = FitOf(sel.entries[2])
  /\ pop[sel.entries[1]].val # pop[sel.entries[2]].val
  /\ next_pop[Len(next_pop)].val = pop[sel.entries[1]].val

(* ------------------------------- Config ------------------------------- *)

\* The warnings recorded in m_warnings so far: those pending and those
\* already notified.
Recorded == cfg.pending + cfg.notified

\* C23: a constant setting keeps its original value through every Set and
\* SetValue call, Get returns that value, and a Set or SetValue call records
\* one warning when the requested value differs from the current one and none
\* when it is identical.
C23_ConstUnchanged ==
  [][/\ ConstGetValue(cfg') = cfg'.orig
     /\ cfg_call'.op = "Get" => cfg_call'.ret = cfg'.orig
     /\ cfg_call'.op \in {"Set", "SetValue"} =>
          Recorded' = Recorded + (IF cfg_call'.in_val # ConstGetValue(cfg)
                                  THEN 1 ELSE 0)]_vars

\* C23 witness: Get has returned the original value after two Set or SetValue
\* calls, one of which recorded a warning, since notified.
C23_Witness ==
  /\ cfg_call.op = "Get"
  /\ cfg.calls = 3
  /\ cfg.direct = 0
  /\ Recorded = 1
  /\ cfg.notified = 1
  /\ cfg_call.ret = cfg.orig

(* ---------------------------- StatsManager ---------------------------- *)

IsRow(line) == line.kind = "row"

\* resolution divides update.
Divides(resolution, update) ==
  \E k \in (0 - MaxUpdate) .. MaxUpdate : update = k * resolution

IsDue(update) == Divides(stats.resolution, update)

\* The updates of the data rows written, in order.
RowUpdates == LET rows == SelectSeq(output, IsRow)
              IN [i \in 1 .. Len(rows) |-> rows[i].update]

\* C24: the header line is written exactly once, by the first Update call and
\* before any data row, and the data rows are those of the Update calls whose
\* update is a multiple of the resolution, in call order.
C24_HeaderOnceRowsOnResolution ==
  /\ Len(upd_log) = 0 => Len(output) = 0
  /\ Len(upd_log) > 0 =>
       /\ output[1].kind = "header"
       /\ \A i \in 2 .. Len(output) : output[i].kind = "row"
  /\ RowUpdates = SelectSeq(upd_log, IsDue)

\* C24 witness: three Update calls with resolution 2, the first not on the
\* resolution, have written the header and two rows, one of a negative update.
C24_Witness ==
  /\ stats.resolution = 2
  /\ Len(upd_log) = 3
  /\ ~IsDue(upd_log[1])
  /\ upd_log[2] < 0
  /\ Len(output) = 3
  /\ Len(output[1].text) = 2

(* ------------------------ structural invariants ----------------------- *)

\* C25: when to_DFA has returned, every DFA state, the start state 0
\* included, is accepting exactly when the state-set it stands for holds an
\* accepting NFA state.
C25_StopIffAnyAll ==
  pc = "done" =>
    \A q \in DFAStates : dfa.is_stop[q] <=> (SetOf(q) \cap nfa.stop # {})

\* C26: at every step of to_DFA the DFA has as many states as id_map has
\* state-sets, the ids are exactly 0 .. GetSize()-1 with the start set at 0,
\* every state-set on the work-list is in id_map, and every recorded
\* transition goes from and to an index below GetSize().
C26_Consistent ==
  /\ GetSize(dfa) = Cardinality(DOMAIN id_map)
  /\ {id_map[S] : S \in DOMAIN id_map} = 0 .. GetSize(dfa) - 1
  /\ GetStart \in DOMAIN id_map
  /\ id_map[GetStart] = 0
  /\ \A i \in 1 .. Len(state_stack) : state_stack[i] \in DOMAIN id_map
  /\ DOMAIN dfa.trans = 0 .. GetSize(dfa) - 1
  /\ \A q \in DOMAIN dfa.trans : \A a \in Symbols :
       dfa.trans[q][a] # NoTransition => dfa.trans[q][a] \in 0 .. GetSize(dfa) - 1

\* C26 witness: in the middle of a conversion with keep_invalid, the DFA has
\* three states, one of them for the empty state-set, and a state-set waits on
\* the work-list.
C26_Witness ==
  /\ pc = "for"
  /\ keep_invalid
  /\ GetSize(dfa) = 3
  /\ {} \in DOMAIN id_map
  /\ Len(state_stack) >= 1

\* C27: after n AddRule calls the table holds n rules, the i-th rule's id is
\* the id the i-th call returned, the ids increase by 1 in declaration order,
\* and the next-id counter is its initial value plus n.
C27_TableAndCounter ==
  /\ Len(rules) = Len(ret_log)
  /\ \A i \in 1 .. Len(rules) : rules[i].id = ret_log[i]
  /\ \A i \in 1 .. Len(rules) - 1 : rules[i + 1].id = rules[i].id + 1
  /\ \A i \in 1 .. Len(rules) : \A j \in 1 .. Len(rules) :
       rules[i].id = rules[j].id => i = j
  /\ cur_rule_id = FirstRuleID(lexer) + Len(ret_log)

\* C27 witness: two AddRule calls on a parser over a lexer whose MaxTokenID()
\* is 7 have left two rules and moved the counter by two.
C27_Witness ==
  /\ MaxTokenID = 7
  /\ Len(ret_log) = 2
  /\ cur_rule_id = FirstRuleID(lexer) + 2
  /\ rules[2].id = ret_log[2]

====
